---- MODULE Spec2Model ----
(***************************************************************************)
(* Model of EmailService (src/src/email/email.service.ts): the session     *)
(* handle, the delayed-task queue it feeds, and its operations             *)
(* initializeGmailClient, scheduleEmailChecking, checkUnreadEmails,        *)
(* getEmailData and processIncomingEmail, the last three split at their    *)
(* await points.  Strings are sequences of character codes so that the     *)
(* reply encoding of createReplyMessage is computed, not assumed.          *)
(***************************************************************************)
EXTENDS Integers, Sequences, FiniteSets, TLC

\* ------------------------------------------------------------------ bounds
NumMsgs == 2        \* message ids the provider knows: 1..NumMsgs
MaxQueue == 2       \* tasks the queue holds before the model stops adding
MaxHeaders == 2     \* headers of a provider message
MaxText == 2        \* characters of a free-text input of the encoder

\* ------------------------------------------------------------- strings
\* A string is a sequence of Unicode code points.
S_a == <<97>>
S_b == <<98>>
S_S == <<83>>
S_T == <<84>>
S_Subject == <<83,117,98,106,101,99,116>>
S_From == <<70,114,111,109>>
S_To == <<84,111>>
S_subject_lc == <<115,117,98,106,101,99,116>>
S_NoSubject == <<78,111,32,83,117,98,106,101,99,116>>
S_FromColon == <<70,114,111,109,58,32>>
S_ToColon == <<84,111,58,32>>
S_SubjectRe == <<83,117,98,106,101,99,116,58,32,82,101,58,32>>
S_InReplyTo == <<73,110,45,82,101,112,108,121,45,84,111,58,32>>
S_References == <<82,101,102,101,114,101,110,99,101,115,58,32>>
S_undefined == <<117,110,100,101,102,105,110,101,100>>
NL == 10
PLUS == 43
SLASH == 47
MINUS == 45
UNDERSCORE == 95
EQUALS == 61

\* A JavaScript value that is a string or undefined.
Undefined == [def |-> FALSE, s |-> <<>>]
Str(s) == [def |-> TRUE, s |-> s]

\* Array.prototype.join renders an undefined element as the empty string.
JoinElem(v) == IF v.def THEN v.s ELSE <<>>

\* A template literal `${v}` renders undefined as the text "undefined".
Template(v) == IF v.def THEN v.s ELSE S_undefined

RECURSIVE Join(_)
Join(parts) ==
    IF Len(parts) = 0 THEN <<>>
    ELSE IF Len(parts) = 1 THEN JoinElem(parts[1])
    ELSE JoinElem(parts[1]) \o <<NL>> \o Join(Tail(parts))

\* Buffer.from(string): the UTF-8 bytes of the string.
RECURSIVE Utf8Encode(_)
Utf8Encode(s) ==
    IF Len(s) = 0 THEN <<>>
    ELSE LET c == Head(s)
             b == IF c < 128 THEN <<c>>
                  ELSE IF c < 2048 THEN <<192 + (c \div 64), 128 + (c % 64)>>
                  ELSE <<224 + (c \div 4096), 128 + ((c \div 64) % 64), 128 + (c % 64)>>
         IN b \o Utf8Encode(Tail(s))

\* The standard base64 alphabet, as character codes.
B64Char(i) ==
    IF i < 26 THEN 65 + i
    ELSE IF i < 52 THEN 97 + (i - 26)
    ELSE IF i < 62 THEN 48 + (i - 52)
    ELSE IF i = 62 THEN PLUS
    ELSE SLASH

\* buffer.toString('base64'): padded standard base64.
RECURSIVE Base64(_)
Base64(b) ==
    IF Len(b) = 0 THEN <<>>
    ELSE IF Len(b) = 1 THEN
        LET n == b[1] * 65536
        IN <<B64Char(n \div 262144), B64Char((n \div 4096) % 64), EQUALS, EQUALS>>
    ELSE IF Len(b) = 2 THEN
        LET n == b[1] * 65536 + b[2] * 256
        IN <<B64Char(n \div 262144), B64Char((n \div 4096) % 64),
             B64Char((n \div 64) % 64), EQUALS>>
    ELSE
        LET n == b[1] * 65536 + b[2] * 256 + b[3]
        IN <<B64Char(n \div 262144), B64Char((n \div 4096) % 64),
             B64Char((n \div 64) % 64), B64Char(n % 64)>>
           \o Base64(SubSeq(b, 4, Len(b)))

\* s.replace(/x/g, y) for single characters x and y.
ReplaceAll(s, x, y) == [i \in 1..Len(s) |-> IF s[i] = x THEN y ELSE s[i]]

\* s.replace(/=+$/, ''): drop the run of '=' that ends the string.
RECURSIVE StripTrailingEquals(_)
StripTrailingEquals(s) ==
    IF Len(s) > 0 /\ s[Len(s)] = EQUALS
    THEN StripTrailingEquals(SubSeq(s, 1, Len(s) - 1))
    ELSE s

messageParts(from, to, subject, text, messageId) ==
    << Str(S_FromColon \o Template(from)),
       Str(S_ToColon \o Template(to)),
       Str(S_SubjectRe \o Template(subject)),
       Str(S_InReplyTo \o Template(messageId)),
       Str(S_References \o Template(messageId)),
       Str(<<>>),
       text >>

\* Mutant: '/' is left as it is.
createReplyMessage_NoSlash(from, to, subject, text, messageId) ==
    LET message == Join(messageParts(from, to, subject, text, messageId))
    IN StripTrailingEquals(ReplaceAll(Base64(Utf8Encode(message)), PLUS, MINUS))

createReplyMessage(from, to, subject, text, messageId) ==
    LET message == Join(messageParts(from, to, subject, text, messageId))
    IN StripTrailingEquals(
         ReplaceAll(ReplaceAll(Base64(Utf8Encode(message)), PLUS, MINUS),
                    SLASH, UNDERSCORE))

\* ------------------------------------------------------------- the state
VARIABLES
    gmailClient,    \* the session handle: NoClient until initializeGmailClient
    emailQueue,     \* the tasks the delayed-task queue holds, oldest first
    mailbox,        \* what the provider's get returns for each message id
    provider,       \* the provider's unread set and the replies it has sent, when followed
    job,            \* the task the queue's worker is running, NoJob between tasks
    op,             \* the operation being run
    pc,             \* its position: the await it is suspended at, or "done"
    loc,            \* its arguments and local variables
    calls,          \* collaborator calls it has issued, in order
    steps,          \* internal steps it has run, in order, each with its outcome
    ret,            \* how the call settled, and with what value
    queue0          \* history: emailQueue as it was when the operation began

vars == <<gmailClient, emailQueue, mailbox, provider, job, op, pc, loc, calls, steps, ret, queue0>>

NoClient == "undefined"
NoJob == [name |-> "none"]
Tokens == {"tokenA", "tokenB"}

MsgIds == 1..NumMsgs
\* The id string of message k: "M1", "M2", ...
MsgId(k) == <<77, 48 + k>>

\* Settled values of an async call.
Pending == [state |-> "pending", kind |-> "none"]
ResolvedUndefined == [state |-> "resolved", kind |-> "undefined"]
ResolvedNull == [state |-> "resolved", kind |-> "null"]
ResolvedRecord(r) == [state |-> "resolved", kind |-> "record", data |-> r]
Rejected == [state |-> "rejected", kind |-> "error"]

Call(svc, name, arg, res) == [svc |-> svc, op |-> name, arg |-> arg, res |-> res]
Step(name, out) == [step |-> name, out |-> out]

\* Outcomes of a call that reaches a collaborator.
Outcomes == {"ok", "fail"}

\* ------------------------------------------------------------- labelMapping
S_Interested == <<73,110,116,101,114,101,115,116,101,100>>
S_NotInterested == <<78,111,116,32,105,110,116,101,114,101,115,116,101,100>>
S_MoreInformation == <<77,111,114,101,32,105,110,102,111,114,109,97,116,105,111,110>>
S_interested_lc == <<105,110,116,101,114,101,115,116,101,100>>
S_Spam == <<83,112,97,109>>
S_constructor == <<99,111,110,115,116,114,117,99,116,111,114>>
S_toString == <<116,111,83,116,114,105,110,103>>
S_ctx == <<99,116,120>>

LabelString(id) == [kind |-> "string", v |-> id]
LabelFunction(name) == [kind |-> "function", v |-> name]
LabelUndefined == [kind |-> "undefined", v |-> ""]
LabelNull == [kind |-> "null", v |-> ""]

MappedCategories == {S_Interested, S_NotInterested, S_MoreInformation}

\* The own properties of the labelMapping object literal.
OwnLabel(key) ==
    IF key = S_Interested THEN LabelString("Label_3035777443514222121")
    ELSE IF key = S_NotInterested THEN LabelString("Label_5649682475137114370")
    ELSE LabelString("Label_5331249162142973886")

MappedLabels == {OwnLabel(k) : k \in MappedCategories}

\* Properties an object literal inherits from Object.prototype (two of them).
InheritedKeys == {S_constructor, S_toString}
Inherited(key) ==
    IF key = S_constructor THEN LabelFunction("Object") ELSE LabelFunction("toString")

\* A property key is a string: undefined is looked up as "undefined".
PropertyKey(v) == IF v.def THEN v.s ELSE S_undefined

\* this.labelMapping[category]: own property, else the prototype chain, else
\* undefined.
labelMapping(category) ==
    LET key == PropertyKey(category)
    IN IF key \in MappedCategories THEN OwnLabel(key)
       ELSE IF key \in InheritedKeys THEN Inherited(key)
       ELSE LabelUndefined

\* labelMapping[category] || null
LabelIdOf(category) ==
    IF labelMapping(category).kind = "undefined" THEN LabelNull
    ELSE labelMapping(category)

\* ------------------------------------------------------------- the queue
DelayMs == 60000

CheckTask == [name |-> "checkUnreadEmails", data |-> {}, opts |-> {<<"delay", DelayMs>>}]
ProcessTask(id) == [name |-> "processEmail", data |-> {<<"messageId", id>>}, opts |-> {}]

\* ------------------------------------------------------------- the provider
Header(n, v) == [name |-> n, value |-> v]

\* The message of the header-extraction example: Subject S, From a, To b.
ExampleMessage ==
    [headers |-> <<Header(S_Subject, S_S), Header(S_From, S_a), Header(S_To, S_b)>>,
     snippet |-> Str(S_T)]

\* What users.messages.list can answer: data.messages absent (no unread
\* message), or the unread ids, each once, in the provider's order.
RECURSIVE Listings(_)
Listings(n) ==
    IF n = 0 THEN {<<>>}
    ELSE Listings(n - 1) \cup
         {Append(s, k) : s \in {x \in Listings(n - 1) : Len(x) = n - 1},
                         k \in MsgIds}
DistinctListings ==
    {s \in Listings(NumMsgs) : \A i, j \in 1..Len(s) : i # j => s[i] # s[j]}
ListResponses ==
    {[has |-> FALSE, ids |-> <<>>]} \cup {[has |-> TRUE, ids |-> s] : s \in DistinctListings}

\* The provider's own state. Where it is not followed (OpaqueProvider) a
\* listing may answer anything; where it is, a listing answers the unread
\* messages, a send that succeeds is one more reply to that message and a
\* removal of UNREAD that succeeds takes the message out of the unread ones.
NoReplies == [k \in MsgIds |-> 0]
OpaqueProvider == [tracked |-> FALSE, unread |-> {}, sent |-> NoReplies]
Mailbox(unread) == [tracked |-> TRUE, unread |-> unread, sent |-> NoReplies]

RECURSIVE Ascending(_)
Ascending(S) ==
    IF S = {} THEN <<>>
    ELSE LET k == CHOOSE x \in S : \A y \in S : x <= y
         IN <<k>> \o Ascending(S \ {k})

ListResponsesOf(p) ==
    IF ~p.tracked THEN ListResponses
    ELSE IF p.unread = {} THEN {[has |-> FALSE, ids |-> <<>>]}
    ELSE {[has |-> TRUE, ids |-> Ascending(p.unread)]}

IdOf(messageId) == CHOOSE k \in MsgIds : MsgId(k) = messageId

AfterSend(p, messageId) ==
    IF p.tracked THEN [p EXCEPT !.sent[IdOf(messageId)] = @ + 1] ELSE p
AfterMarkRead(p, messageId) ==
    IF p.tracked THEN [p EXCEPT !.unread = @ \ {IdOf(messageId)}] ELSE p

\* ------------------------------------------------------------- shared steps
Idle == pc \in {"idle", "done"}

\* A new invocation runs to its first await, or to its end: it has issued no
\* call yet, has run the steps st, stands at p and has settled as r.
StartAt(o, l, st, p, r) ==
    /\ op' = o
    /\ loc' = l
    /\ pc' = p
    /\ calls' = <<>>
    /\ steps' = st
    /\ ret' = r
    /\ queue0' = emailQueue

Start(o, l, p) == StartAt(o, l, <<>>, p, Pending)

\* The invocation settles.
Settle(r) ==
    /\ pc' = "done"
    /\ ret' = r

\* ------------------------------------------------------------- operations
initializeGmailClient ==
    /\ \E token \in Tokens : gmailClient' = token
    /\ UNCHANGED <<emailQueue, mailbox, provider, job, op, pc, loc, calls, steps,
                   ret, queue0>>

\* scheduleEmailChecking up to its await of emailQueue.add.
scheduleEmailChecking_start ==
    /\ Idle
    /\ Len(emailQueue) < MaxQueue
    /\ Start("scheduleEmailChecking", [none |-> TRUE], "add")
    /\ UNCHANGED <<gmailClient, emailQueue, mailbox, provider, job>>

\* Mutant: the check task is added with no delay option.
scheduleEmailChecking_add_NoDelay ==
    /\ op = "scheduleEmailChecking" /\ pc = "add"
    /\ LET task == [CheckTask EXCEPT !.opts = {}]
       IN \E res \in Outcomes :
            /\ calls' = Append(calls, Call("queue", "add", task, res))
            /\ IF res = "ok"
               THEN emailQueue' = Append(emailQueue, task) /\ Settle(ResolvedUndefined)
               ELSE emailQueue' = emailQueue /\ Settle(Rejected)
    /\ UNCHANGED <<gmailClient, mailbox, provider, job, op, loc, steps, queue0>>

\* emailQueue.add('checkUnreadEmails', {}, {delay: 60000}) settles; nothing
\* catches its rejection.
scheduleEmailChecking_add ==
    /\ op = "scheduleEmailChecking" /\ pc = "add"
    /\ \E res \in Outcomes :
         /\ calls' = Append(calls, Call("queue", "add", CheckTask, res))
         /\ IF res = "ok"
            THEN emailQueue' = Append(emailQueue, CheckTask) /\ Settle(ResolvedUndefined)
            ELSE emailQueue' = emailQueue /\ Settle(Rejected)
    /\ UNCHANGED <<gmailClient, mailbox, provider, job, op, loc, steps, queue0>>

\* res (what the listing answered, once it has), messages and the loop index.
CheckLocals == [res |-> [has |-> FALSE, ids |-> <<>>], messages |-> <<>>, i |-> 1]

\* Mutant: checkUnreadEmails without the presence check on the client; the
\* listing is asked for whatever the handle is.
checkUnreadEmails_start_NoGuard ==
    /\ Idle
    /\ StartAt("checkUnreadEmails", CheckLocals,
               <<Step("client", IF gmailClient = NoClient THEN "noclient" ELSE "ok")>>,
               "list", Pending)
    /\ UNCHANGED <<gmailClient, emailQueue, mailbox, provider, job>>

\* checkUnreadEmails up to its await of users.messages.list.
checkUnreadEmails_start ==
    /\ Idle
    /\ IF gmailClient = NoClient
       THEN StartAt("checkUnreadEmails", CheckLocals,
                    <<Step("client", "noclient")>>, "done", ResolvedUndefined)
       ELSE StartAt("checkUnreadEmails", CheckLocals,
                    <<Step("client", "ok")>>, "list", Pending)
    /\ UNCHANGED <<gmailClient, emailQueue, mailbox, provider, job>>

\* Mutant: a failed listing drops the client.
checkUnreadEmails_list_DropsClient ==
    /\ op = "checkUnreadEmails" /\ pc = "list"
    /\ \/ /\ calls' = Append(calls, Call("gmail", "list", "is:unread", "fail"))
          /\ Settle(ResolvedUndefined)
          /\ loc' = loc
          /\ gmailClient' = NoClient
       \/ \E r \in ListResponsesOf(provider) :
            /\ Len(emailQueue) + Len(r.ids) <= MaxQueue
            /\ calls' = Append(calls, Call("gmail", "list", "is:unread", "ok"))
            /\ loc' = [res |-> r, messages |-> IF r.has THEN r.ids ELSE <<>>, i |-> 1]
            /\ IF Len(r.ids) = 0
               THEN Settle(ResolvedUndefined)
               ELSE pc' = "add" /\ ret' = ret
            /\ gmailClient' = gmailClient
    /\ UNCHANGED <<emailQueue, mailbox, provider, job, op, steps, queue0>>

\* users.messages.list settles; messages = res.data.messages || [].
checkUnreadEmails_list ==
    /\ op = "checkUnreadEmails" /\ pc = "list"
    /\ \/ /\ calls' = Append(calls, Call("gmail", "list", "is:unread", "fail"))
          /\ Settle(ResolvedUndefined)
          /\ loc' = loc
       \/ \E r \in ListResponsesOf(provider) :
            /\ Len(emailQueue) + Len(r.ids) <= MaxQueue
            /\ calls' = Append(calls, Call("gmail", "list", "is:unread", "ok"))
            /\ loc' = [res |-> r, messages |-> IF r.has THEN r.ids ELSE <<>>, i |-> 1]
            /\ IF Len(r.ids) = 0
               THEN Settle(ResolvedUndefined)
               ELSE pc' = "add" /\ ret' = ret
    /\ UNCHANGED <<gmailClient, emailQueue, mailbox, provider, job, op, steps, queue0>>

\* Mutant: every task carries the id of the first listed message.
checkUnreadEmails_add_FirstId ==
    /\ op = "checkUnreadEmails" /\ pc = "add"
    /\ LET task == ProcessTask(MsgId(loc.messages[1]))
       IN \E res \in Outcomes :
            /\ calls' = Append(calls, Call("queue", "add", task, res))
            /\ IF res = "ok"
               THEN /\ emailQueue' = Append(emailQueue, task)
                    /\ loc' = [loc EXCEPT !.i = loc.i + 1]
                    /\ IF loc.i = Len(loc.messages)
                       THEN Settle(ResolvedUndefined)
                       ELSE pc' = "add" /\ ret' = ret
               ELSE /\ emailQueue' = emailQueue
                    /\ loc' = loc
                    /\ Settle(ResolvedUndefined)
    /\ UNCHANGED <<gmailClient, mailbox, provider, job, op, steps, queue0>>

\* Mutant: a failed add is skipped and the loop goes on with the next message.
checkUnreadEmails_add_KeepsGoing ==
    /\ op = "checkUnreadEmails" /\ pc = "add"
    /\ LET task == ProcessTask(MsgId(loc.messages[loc.i]))
       IN \E res \in Outcomes :
            /\ calls' = Append(calls, Call("queue", "add", task, res))
            /\ emailQueue' = IF res = "ok" THEN Append(emailQueue, task) ELSE emailQueue
            /\ loc' = [loc EXCEPT !.i = loc.i + 1]
            /\ IF loc.i = Len(loc.messages)
               THEN Settle(ResolvedUndefined)
               ELSE pc' = "add" /\ ret' = ret
    /\ UNCHANGED <<gmailClient, mailbox, provider, job, op, steps, queue0>>

\* One turn of the loop: emailQueue.add('processEmail', {messageId}) settles.
checkUnreadEmails_add ==
    /\ op = "checkUnreadEmails" /\ pc = "add"
    /\ LET task == ProcessTask(MsgId(loc.messages[loc.i]))
       IN \E res \in Outcomes :
            /\ calls' = Append(calls, Call("queue", "add", task, res))
            /\ IF res = "ok"
               THEN /\ emailQueue' = Append(emailQueue, task)
                    /\ loc' = [loc EXCEPT !.i = loc.i + 1]
                    /\ IF loc.i = Len(loc.messages)
                       THEN Settle(ResolvedUndefined)
                       ELSE pc' = "add" /\ ret' = ret
               ELSE /\ emailQueue' = emailQueue
                    /\ loc' = loc
                    /\ Settle(ResolvedUndefined)
    /\ UNCHANGED <<gmailClient, mailbox, provider, job, op, steps, queue0>>

\* ------------------------------------------------------------- getEmailData
\* Mutant: the last header of that name wins.
RECURSIVE FindValue_Last(_, _)
FindValue_Last(headers, name) ==
    IF Len(headers) = 0 THEN Undefined
    ELSE IF headers[Len(headers)].name = name THEN Str(headers[Len(headers)].value)
    ELSE FindValue_Last(SubSeq(headers, 1, Len(headers) - 1), name)

\* headers.find(header => header.name === name)?.value
RECURSIVE FindValue(_, _)
FindValue(headers, name) ==
    IF Len(headers) = 0 THEN Undefined
    ELSE IF Head(headers).name = name THEN Str(Head(headers).value)
    ELSE FindValue(Tail(headers), name)

\* v || d on a string-or-undefined v: undefined and '' are falsy.
OrDefault(v, d) == IF v.def /\ v.s # <<>> THEN v.s ELSE d

\* The record getEmailData builds from res.data.
ExtractEmailData(email) ==
    [from |-> OrDefault(FindValue(email.headers, S_From), <<>>),
     to |-> OrDefault(FindValue(email.headers, S_To), <<>>),
     subject |-> OrDefault(FindValue(email.headers, S_Subject), S_NoSubject),
     emailContent |-> OrDefault(email.snippet, <<>>)]

\* getEmailData up to its await of users.messages.get; with no client the
\* property access throws inside the try and the catch returns null.
getEmailData_start ==
    /\ Idle
    /\ \E m \in MsgIds :
         IF gmailClient = NoClient
         THEN StartAt("getEmailData", [messageId |-> MsgId(m), k |-> m],
                      <<Step("get", "noclient")>>, "done", ResolvedNull)
         ELSE Start("getEmailData", [messageId |-> MsgId(m), k |-> m], "get")
    /\ UNCHANGED <<gmailClient, emailQueue, mailbox, provider, job>>

\* Mutant: getEmailData without its try/catch.
getEmailData_get_NoCatch ==
    /\ op = "getEmailData" /\ pc = "get"
    /\ \E res \in Outcomes :
         /\ calls' = Append(calls, Call("gmail", "get", loc.messageId, res))
         /\ IF res = "ok"
            THEN Settle(ResolvedRecord(ExtractEmailData(mailbox[loc.k])))
            ELSE Settle(Rejected)
    /\ UNCHANGED <<gmailClient, emailQueue, mailbox, provider, job, op, loc, steps,
                   queue0>>

\* users.messages.get settles.
getEmailData_get ==
    /\ op = "getEmailData" /\ pc = "get"
    /\ \E res \in Outcomes :
         /\ calls' = Append(calls, Call("gmail", "get", loc.messageId, res))
         /\ IF res = "ok"
            THEN Settle(ResolvedRecord(ExtractEmailData(mailbox[loc.k])))
            ELSE Settle(ResolvedNull)
    /\ UNCHANGED <<gmailClient, emailQueue, mailbox, provider, job, op, loc, steps,
                   queue0>>

\* ------------------------------------------------------------- the classifier
\* OpenaiService is not among the sources: each of its three methods answers
\* with text, or with undefined when its own call failed.
analyzeEmailContextResults == {Str(S_ctx), Undefined}
categorizeEmailContentResults ==
    {Str(c) : c \in MappedCategories \cup {S_interested_lc, S_Spam} \cup InheritedKeys}
        \cup {Undefined}
generateEmailReplyResults == {Str(S_T), Undefined}

OutcomeOf(v) == IF v.def THEN "ok" ELSE "fail"

\* ------------------------------------------------------------- processIncomingEmail
NullData == [null |-> TRUE]
\* A message with no header and no snippet: every field is its default.
BareMessage == [headers |-> <<>>, snippet |-> Undefined]
EmailDatas == {ExtractEmailData(ExampleMessage), ExtractEmailData(BareMessage)}

ProcessLocals(m, d) ==
    [messageId |-> MsgId(m), emailData |-> d, category |-> Undefined,
     labelId |-> LabelNull, replyContent |-> Undefined]

\* Mutant: a null record is not noticed and the message is still marked read.
processIncomingEmail_start_NullMarksRead ==
    /\ Idle
    /\ \E m \in MsgIds, d \in EmailDatas \cup {NullData} :
         IF d = NullData
         THEN Start("processIncomingEmail", ProcessLocals(m, d), "mark")
         ELSE Start("processIncomingEmail", ProcessLocals(m, d), "analyze")
    /\ UNCHANGED <<gmailClient, emailQueue, mailbox, provider, job>>

\* processIncomingEmail up to its first await; destructuring a null record
\* throws, and the catch of processIncomingEmail ends the run.
processIncomingEmail_start ==
    /\ Idle
    /\ \E m \in MsgIds, d \in EmailDatas \cup {NullData} :
         IF d = NullData
         THEN StartAt("processIncomingEmail", ProcessLocals(m, d),
                      <<Step("destructure", "threw")>>, "done", ResolvedUndefined)
         ELSE Start("processIncomingEmail", ProcessLocals(m, d), "analyze")
    /\ UNCHANGED <<gmailClient, emailQueue, mailbox, provider, job>>

\* openaiService.analyzeEmailContext settles; its result is only logged.
processIncomingEmail_analyze ==
    /\ op = "processIncomingEmail" /\ pc = "analyze"
    /\ \E v \in analyzeEmailContextResults :
         /\ calls' = Append(calls, Call("openai", "analyzeEmailContext",
                                        loc.emailData.emailContent, OutcomeOf(v)))
         /\ steps' = Append(steps, Step("analyze", OutcomeOf(v)))
    /\ pc' = "categorize"
    /\ UNCHANGED <<gmailClient, emailQueue, mailbox, provider, job, op, loc, ret,
                   queue0>>

\* openaiService.categorizeEmailContent settles; the label id is looked up and
\* decides whether assignLabelToEmail runs.
processIncomingEmail_categorize ==
    /\ op = "processIncomingEmail" /\ pc = "categorize"
    /\ \E v \in categorizeEmailContentResults :
         /\ calls' = Append(calls, Call("openai", "categorizeEmailContent",
                                        loc.emailData.emailContent, OutcomeOf(v)))
         /\ steps' = Append(steps, Step("categorize", OutcomeOf(v)))
         /\ loc' = [loc EXCEPT !.category = v, !.labelId = LabelIdOf(v)]
         /\ pc' = IF LabelIdOf(v) # LabelNull THEN "label" ELSE "generate"
    /\ UNCHANGED <<gmailClient, emailQueue, mailbox, provider, job, op, ret, queue0>>

\* A users.messages.modify call inside a method's own try: with no client the
\* property access throws before any call is issued; either failure is caught
\* in the method, which then returns.
ModifyCaught(step, request, next, settled) ==
    /\ IF gmailClient = NoClient
       THEN /\ calls' = calls
            /\ steps' = Append(steps, Step(step, "noclient"))
       ELSE \E res \in Outcomes :
            /\ calls' = Append(calls, Call("gmail", "modify", request, res))
            /\ steps' = Append(steps, Step(step, res))
    /\ pc' = next
    /\ ret' = settled

\* Mutant: assignLabelToEmail without its own try/catch, so that its failure
\* reaches the catch of processIncomingEmail and ends the run.
assignLabelToEmail_NoCatch ==
    /\ op = "processIncomingEmail" /\ pc = "label"
    /\ IF gmailClient = NoClient
       THEN /\ calls' = calls
            /\ steps' = Append(steps, Step("label", "noclient"))
            /\ Settle(ResolvedUndefined)
       ELSE \E res \in Outcomes :
            /\ calls' = Append(calls, Call("gmail", "modify",
                               [id |-> loc.messageId, addLabelIds |-> <<loc.labelId>>,
                                removeLabelIds |-> <<>>], res))
            /\ steps' = Append(steps, Step("label", res))
            /\ IF res = "ok" THEN pc' = "generate" /\ ret' = ret
               ELSE Settle(ResolvedUndefined)
    /\ UNCHANGED <<gmailClient, emailQueue, mailbox, provider, job, op, loc, queue0>>

assignLabelToEmail ==
    /\ op = "processIncomingEmail" /\ pc = "label"
    /\ ModifyCaught("label",
                    [id |-> loc.messageId, addLabelIds |-> <<loc.labelId>>,
                     removeLabelIds |-> <<>>],
                    "generate", ret)
    /\ UNCHANGED <<gmailClient, emailQueue, mailbox, provider, job, op, loc, queue0>>

\* openaiService.generateEmailReply settles.
processIncomingEmail_generate ==
    /\ op = "processIncomingEmail" /\ pc = "generate"
    /\ \E v \in generateEmailReplyResults :
         /\ calls' = Append(calls, Call("openai", "generateEmailReply",
                                        loc.emailData.emailContent, OutcomeOf(v)))
         /\ steps' = Append(steps, Step("generate", OutcomeOf(v)))
         /\ loc' = [loc EXCEPT !.replyContent = v]
    /\ pc' = "send"
    /\ UNCHANGED <<gmailClient, emailQueue, mailbox, provider, job, op, ret, queue0>>

sendReplyEmail_NoSwap ==
    /\ op = "processIncomingEmail" /\ pc = "send"
    /\ LET d == loc.emailData
           message == createReplyMessage(Str(d.from), Str(d.to), Str(d.subject),
                                         loc.replyContent, Str(loc.messageId))
       IN IF gmailClient = NoClient
          THEN /\ calls' = calls
               /\ steps' = Append(steps, Step("send", "noclient"))
               /\ provider' = provider
          ELSE \E res \in Outcomes :
               /\ calls' = Append(calls, Call("gmail", "send", [raw |-> message], res))
               /\ steps' = Append(steps, Step("send", res))
               /\ provider' = IF res = "ok" THEN AfterSend(provider, loc.messageId)
                              ELSE provider
    /\ pc' = "mark"
    /\ UNCHANGED <<gmailClient, emailQueue, mailbox, job, op, loc, ret, queue0>>

\* sendReplyEmail(messageId, {from, to, subject, text: replyContent}): the raw
\* message is built with the addresses swapped, then users.messages.send.
sendReplyEmail ==
    /\ op = "processIncomingEmail" /\ pc = "send"
    /\ LET d == loc.emailData
           message == createReplyMessage(Str(d.to), Str(d.from), Str(d.subject),
                                         loc.replyContent, Str(loc.messageId))
       IN IF gmailClient = NoClient
          THEN /\ calls' = calls
               /\ steps' = Append(steps, Step("send", "noclient"))
               /\ provider' = provider
          ELSE \E res \in Outcomes :
               /\ calls' = Append(calls, Call("gmail", "send", [raw |-> message], res))
               /\ steps' = Append(steps, Step("send", res))
               /\ provider' = IF res = "ok" THEN AfterSend(provider, loc.messageId)
                              ELSE provider
    /\ pc' = "mark"
    /\ UNCHANGED <<gmailClient, emailQueue, mailbox, job, op, loc, ret, queue0>>

\* markEmailAsRead is the last statement: the run resolves after it.
markEmailAsRead ==
    /\ op = "processIncomingEmail" /\ pc = "mark"
    /\ ModifyCaught("mark",
                    [id |-> loc.messageId, addLabelIds |-> <<>>,
                     removeLabelIds |-> <<"UNREAD">>],
                    "done", ResolvedUndefined)
    /\ provider' = IF steps'[Len(steps')].out = "ok"
                   THEN AfterMarkRead(provider, loc.messageId)
                   ELSE provider
    /\ UNCHANGED <<gmailClient, emailQueue, mailbox, job, op, loc, queue0>>

\* ------------------------------------------------------------- createReplyMessage alone
EncAlphabet == {62, 63, 233, 8364}    \* '>', '?', a two-byte and a three-byte character

RECURSIVE Texts(_)
Texts(n) ==
    IF n = 0 THEN {<<>>}
    ELSE Texts(n - 1) \cup
         {Append(s, c) : s \in {x \in Texts(n - 1) : Len(x) = n - 1}, c \in EncAlphabet}

EncInputs ==
    [from : {S_a, <<233>>}, to : {S_b, S_b \o S_b}, subject : Texts(MaxText),
     text : Texts(MaxText), messageId : {MsgId(k) : k \in MsgIds}]

createReplyMessage_call ==
    /\ op = "createReplyMessage" /\ pc = "call"
    /\ Settle([state |-> "returned", kind |-> "string",
               data |-> createReplyMessage(Str(loc.from), Str(loc.to), Str(loc.subject),
                                           Str(loc.text), Str(loc.messageId))])
    /\ UNCHANGED <<gmailClient, emailQueue, mailbox, provider, job, op, loc, calls,
                   steps, queue0>>

\* ------------------------------------------------------------- provider messages
HeaderChoices ==
    {Header(n, v) : n \in {S_Subject, S_From, S_To, S_subject_lc}, v \in {<<>>, S_a, S_b}}

RECURSIVE HeaderLists(_)
HeaderLists(n) ==
    IF n = 0 THEN {<<>>}
    ELSE HeaderLists(n - 1) \cup
         {Append(s, h) : s \in {x \in HeaderLists(n - 1) : Len(x) = n - 1},
                         h \in HeaderChoices}

ProviderMessages ==
    [headers : HeaderLists(MaxHeaders), snippet : {Undefined, Str(<<>>), Str(S_T)}]

\* ------------------------------------------------------------- specifications
\* No worker and a provider whose state is not followed.
CallersOnly == provider = OpaqueProvider /\ job = NoJob

InitCommon ==
    /\ gmailClient = NoClient
    /\ emailQueue = <<>>
    /\ calls = <<>>
    /\ steps = <<>>
    /\ ret = Pending
    /\ queue0 = <<>>

Init ==
    /\ InitCommon /\ CallersOnly
    /\ mailbox = [k \in MsgIds |-> ExampleMessage]
    /\ op = "none" /\ pc = "idle" /\ loc = [none |-> TRUE]

Next ==
    \/ initializeGmailClient
    \/ scheduleEmailChecking_start
    \/ scheduleEmailChecking_add
    \/ checkUnreadEmails_start
    \/ checkUnreadEmails_list
    \/ checkUnreadEmails_add
    \/ getEmailData_start
    \/ getEmailData_get
    \/ processIncomingEmail_start
    \/ processIncomingEmail_analyze
    \/ processIncomingEmail_categorize
    \/ assignLabelToEmail
    \/ processIncomingEmail_generate
    \/ sendReplyEmail
    \/ markEmailAsRead

Spec == Init /\ [][Next]_vars

\* ------------------------------------------------------------- the queue's worker
\* The worker takes the oldest task and runs it to its end before the next:
\* a check task runs checkUnreadEmails, a process task fetches the message
\* with getEmailData and hands the record to processIncomingEmail. A trigger
\* may call scheduleEmailChecking between two tasks.
MaxSent == 2

TaskMessageId(task) ==
    CHOOSE id \in {MsgId(k) : k \in MsgIds} : <<"messageId", id>> \in task.data

WorkerFree ==
    \/ pc = "idle" /\ job = NoJob
    \/ pc = "done" /\ op # "getEmailData"

Worker_take ==
    /\ WorkerFree
    /\ emailQueue # <<>>
    /\ Head(emailQueue).name = "processEmail" =>
         provider.sent[IdOf(TaskMessageId(Head(emailQueue)))] < MaxSent
    /\ job' = Head(emailQueue)
    /\ emailQueue' = Tail(emailQueue)
    /\ op' = "none" /\ pc' = "idle" /\ loc' = [none |-> TRUE]
    /\ calls' = <<>> /\ steps' = <<>> /\ ret' = Pending
    /\ queue0' = Tail(emailQueue)
    /\ UNCHANGED <<gmailClient, mailbox, provider>>

Worker_check ==
    /\ pc = "idle" /\ job.name = "checkUnreadEmails"
    /\ checkUnreadEmails_start

Worker_fetch ==
    /\ pc = "idle" /\ job.name = "processEmail"
    /\ getEmailData_start
    /\ loc'.messageId = TaskMessageId(job)

Worker_process ==
    /\ op = "getEmailData" /\ pc = "done"
    /\ processIncomingEmail_start
    /\ loc'.messageId = loc.messageId
    /\ loc'.emailData = IF ret.kind = "record" THEN ret.data ELSE NullData

Trigger_schedule ==
    /\ WorkerFree
    /\ scheduleEmailChecking_start

InitQ ==
    /\ InitCommon
    /\ \E unread \in SUBSET MsgIds \ {{}} : provider = Mailbox(unread)
    /\ job = NoJob
    /\ mailbox = [k \in MsgIds |-> ExampleMessage]
    /\ op = "none" /\ pc = "idle" /\ loc = [none |-> TRUE]

NextQ ==
    \/ initializeGmailClient
    \/ Trigger_schedule
    \/ scheduleEmailChecking_add
    \/ Worker_take
    \/ Worker_check
    \/ checkUnreadEmails_list
    \/ checkUnreadEmails_add
    \/ Worker_fetch
    \/ getEmailData_get
    \/ Worker_process
    \/ processIncomingEmail_analyze
    \/ processIncomingEmail_categorize
    \/ assignLabelToEmail
    \/ processIncomingEmail_generate
    \/ sendReplyEmail
    \/ markEmailAsRead

SpecQ == InitQ /\ [][NextQ]_vars

\* getEmailData against every bounded provider message.
InitGet ==
    /\ InitCommon /\ CallersOnly
    /\ \E m \in ProviderMessages : mailbox = [k \in MsgIds |-> m]
    /\ op = "none" /\ pc = "idle" /\ loc = [none |-> TRUE]

NextGet ==
    \/ initializeGmailClient
    \/ getEmailData_start
    \/ getEmailData_get

SpecGet == InitGet /\ [][NextGet]_vars

\* createReplyMessage on every bounded input.
InitEnc ==
    /\ InitCommon /\ CallersOnly
    /\ mailbox = [k \in MsgIds |-> ExampleMessage]
    /\ op = "createReplyMessage" /\ pc = "call"
    /\ loc \in EncInputs

NextEnc == createReplyMessage_call

SpecEnc == InitEnc /\ [][NextEnc]_vars

\* ------------------------------------------------------------- reading a reply back
\* A base64url decoder and a UTF-8 decoder, to read what createReplyMessage wrote.
B64UrlVal(c) ==
    IF c >= 65 /\ c <= 90 THEN c - 65
    ELSE IF c >= 97 /\ c <= 122 THEN c - 71
    ELSE IF c >= 48 /\ c <= 57 THEN c + 4
    ELSE IF c = MINUS THEN 62
    ELSE IF c = UNDERSCORE THEN 63
    ELSE -1

RECURSIVE Base64UrlDecode(_)
Base64UrlDecode(s) ==
    IF Len(s) < 2 THEN <<>>
    ELSE IF Len(s) = 2 THEN
        <<(B64UrlVal(s[1]) * 64 + B64UrlVal(s[2])) \div 16>>
    ELSE IF Len(s) = 3 THEN
        LET n == B64UrlVal(s[1]) * 4096 + B64UrlVal(s[2]) * 64 + B64UrlVal(s[3])
        IN <<n \div 1024, (n \div 4) % 256>>
    ELSE
        LET n == B64UrlVal(s[1]) * 262144 + B64UrlVal(s[2]) * 4096
                 + B64UrlVal(s[3]) * 64 + B64UrlVal(s[4])
        IN <<n \div 65536, (n \div 256) % 256, n % 256>>
           \o Base64UrlDecode(SubSeq(s, 5, Len(s)))

RECURSIVE Utf8Decode(_)
Utf8Decode(b) ==
    IF Len(b) = 0 THEN <<>>
    ELSE IF b[1] < 128 THEN <<b[1]>> \o Utf8Decode(Tail(b))
    ELSE IF b[1] < 224 /\ Len(b) >= 2 THEN
        <<(b[1] - 192) * 64 + (b[2] - 128)>> \o Utf8Decode(SubSeq(b, 3, Len(b)))
    ELSE IF Len(b) >= 3 THEN
        <<(b[1] - 224) * 4096 + (b[2] - 128) * 64 + (b[3] - 128)>>
            \o Utf8Decode(SubSeq(b, 4, Len(b)))
    ELSE <<-1>>

ReadBack(raw) == Utf8Decode(Base64UrlDecode(raw))

\* The text of a reply, written out line by line.
ReplyBlock(from, to, subject, text, messageId) ==
    S_FromColon \o from \o <<NL>> \o S_ToColon \o to \o <<NL>>
    \o S_SubjectRe \o subject \o <<NL>> \o S_InReplyTo \o messageId \o <<NL>>
    \o S_References \o messageId \o <<NL>> \o <<NL>> \o text

\* ------------------------------------------------------------- claims
ProcessRan == op = "processIncomingEmail" /\ loc.emailData # NullData
StepNames == [i \in 1..Len(steps) |-> steps[i].step]
StepOut(name) == {steps[i].out : i \in {j \in 1..Len(steps) : steps[j].step = name}}
IsMarkRead(c) ==
    /\ c.svc = "gmail" /\ c.op = "modify"
    /\ c.arg.id = loc.messageId
    /\ c.arg.addLabelIds = <<>> /\ c.arg.removeLabelIds = <<"UNREAD">>
IsAddLabel(c) ==
    /\ c.svc = "gmail" /\ c.op = "modify"
    /\ c.arg.addLabelIds # <<>>
CallsWhere(P(_)) == {i \in 1..Len(calls) : P(calls[i])}
IsSend(c) == c.svc = "gmail" /\ c.op = "send"

\* C1: a finished processIncomingEmail run on a record has gone through all of
\* analyze, categorize, (label when a label id was found,) generate, send and
\* mark in that order whatever the outcome of each, and has resolved; the
\* mark-read modify call on the message is the last call issued unless no client
\* is bound at that step; after a failed generate-reply the reply that is sent
\* has an empty body (the undefined text was passed on).
C1_StepFailuresDoNotStopTheRun ==
    (ProcessRan /\ pc = "done") =>
        /\ StepNames = IF loc.labelId = LabelNull
                       THEN <<"analyze", "categorize", "generate", "send", "mark">>
                       ELSE <<"analyze", "categorize", "label", "generate", "send", "mark">>
        /\ ret = ResolvedUndefined
        /\ "noclient" \notin StepOut("mark") =>
               /\ calls # <<>> /\ IsMarkRead(calls[Len(calls)])
               /\ Cardinality(CallsWhere(IsMarkRead)) = 1
        /\ "fail" \in StepOut("generate") =>
               /\ loc.replyContent = Undefined
               /\ \A i \in CallsWhere(IsSend) :
                    ReadBack(calls[i].arg.raw) =
                        ReplyBlock(loc.emailData.to, loc.emailData.from,
                                   loc.emailData.subject, <<>>, loc.messageId)

C1_Witness ==
    /\ ProcessRan /\ pc = "done"
    /\ StepOut("analyze") = {"fail"} /\ StepOut("categorize") = {"ok"}
    /\ StepOut("label") = {"fail"} /\ StepOut("generate") = {"fail"}
    /\ StepOut("send") = {"fail"}
    /\ IsMarkRead(calls[Len(calls)])

\* C2: checkUnreadEmails, getEmailData and processIncomingEmail always resolve,
\* whichever call failed and whether or not a client was bound: getEmailData
\* with null when its call failed or could not be made and with a record
\* otherwise, the other two with no value.
C2_NeverRejects ==
    (pc = "done" /\ op \in {"checkUnreadEmails", "getEmailData", "processIncomingEmail"}) =>
        /\ ret.state = "resolved"
        /\ op = "getEmailData" =>
               IF calls = <<>> \/ calls[1].res = "fail"
               THEN ret = ResolvedNull
               ELSE ret.kind = "record"
        /\ op # "getEmailData" => ret = ResolvedUndefined

C2_Witness ==
    /\ pc = "done" /\ op = "getEmailData"
    /\ calls # <<>> /\ calls[1].res = "fail"
    /\ ret = ResolvedNull

ExpectedProcessTasks ==
    [i \in 1..Len(loc.res.ids) |->
        [name |-> "processEmail", data |-> {<<"messageId", MsgId(loc.res.ids[i])>>},
         opts |-> {}]]

\* C3: a finished checkUnreadEmails run with a client bound and no failing call
\* has issued, after the listing, one queue add per listed id in listing order,
\* each the 'processEmail' task with that id as its messageId, and the queue
\* holds exactly those tasks more than when the run began.
C3_OneProcessTaskPerUnreadId ==
    (op = "checkUnreadEmails" /\ pc = "done" /\ calls # <<>>
        /\ \A i \in 1..Len(calls) : calls[i].res = "ok") =>
        /\ Len(calls) = 1 + Len(loc.res.ids)
        /\ calls[1].svc = "gmail" /\ calls[1].op = "list"
        /\ \A i \in 1..Len(loc.res.ids) :
             /\ calls[i + 1].svc = "queue" /\ calls[i + 1].op = "add"
             /\ calls[i + 1].arg = ExpectedProcessTasks[i]
        /\ emailQueue = queue0 \o ExpectedProcessTasks

C3_Witness ==
    /\ op = "checkUnreadEmails" /\ pc = "done"
    /\ Len(loc.res.ids) = NumMsgs
    /\ \A i \in 1..Len(calls) : calls[i].res = "ok"
    /\ Len(emailQueue) = Len(queue0) + NumMsgs

\* C4: checkUnreadEmails begun with no client bound is over at once: it has
\* issued no call at all (none to the provider, none to the queue), the queue
\* is as it was, and it has resolved with no value.
C4_NoSessionNoCalls ==
    (op = "checkUnreadEmails" /\ steps[1].out = "noclient") =>
        /\ pc = "done"
        /\ calls = <<>>
        /\ emailQueue = queue0
        /\ ret = ResolvedUndefined

C4_Witness ==
    /\ op = "checkUnreadEmails" /\ steps[1].out = "noclient"
    /\ pc = "done" /\ gmailClient = NoClient

CategoryKnown == ProcessRan /\ Len(steps) >= 2
LabelAttempts == {i \in 1..Len(steps) : steps[i].step = "label"}

\* C5: once the category is known, a mapped category leads to exactly one
\* add-label attempt, with that category's label id; any other category string
\* leads to no add-label call, and the run goes on through generate, send and
\* mark.
C5_ExactLabelLookup ==
    CategoryKnown =>
        LET key == PropertyKey(loc.category)
        IN /\ key \in MappedCategories =>
                /\ loc.labelId = OwnLabel(key)
                /\ pc \notin {"label"} => Cardinality(LabelAttempts) = 1
                /\ \A i \in CallsWhere(IsAddLabel) :
                     calls[i].arg.addLabelIds = <<OwnLabel(key)>>
                /\ Cardinality(CallsWhere(IsAddLabel)) <= 1
           /\ key \notin MappedCategories =>
                /\ CallsWhere(IsAddLabel) = {}
                /\ pc = "done" =>
                     StepNames = <<"analyze", "categorize", "generate", "send", "mark">>

IsAddOfMappedLabel(c) ==
    /\ c.svc = "gmail" /\ c.op = "modify"
    /\ c.arg.removeLabelIds = <<>>
    /\ \E l \in MappedLabels : c.arg.addLabelIds = <<l>>
IsModify(c) == c.svc = "gmail" /\ c.op = "modify"

\* C6: the modify calls of a run are at most one add of a mapped label and at
\* most one removal of UNREAD, nothing else; after a label was added and the
\* send failed, the run still ends with the mark-read step.
C6_NoRollback ==
    ProcessRan =>
        /\ \A i \in CallsWhere(IsModify) :
             IsAddOfMappedLabel(calls[i]) \/ IsMarkRead(calls[i])
        /\ Cardinality(CallsWhere(IsAddOfMappedLabel)) <= 1
        /\ Cardinality(CallsWhere(IsMarkRead)) <= 1
        /\ (pc = "done" /\ StepOut("label") = {"ok"} /\ StepOut("send") = {"fail"}) =>
             /\ steps[Len(steps)].step = "mark"
             /\ \A i \in CallsWhere(IsModify) :
                  IsMarkRead(calls[i]) \/ calls[i].arg.removeLabelIds = <<>>

\* C7: scheduleEmailChecking resolves even when the queue's add fails.
C7_ScheduleNeverRejects ==
    (op = "scheduleEmailChecking" /\ pc = "done") => ret.state = "resolved"

\* C8: a scheduleEmailChecking call issues exactly one call, the queue add of
\* the 'checkUnreadEmails' task with an empty payload and a delay of 60000 ms,
\* with or without a client; the queue holds that one task more when the add
\* succeeded and is as it was otherwise; no provider, classifier or
\* 'processEmail' call is made.
C8_ScheduleAddsOneCheckTask ==
    op = "scheduleEmailChecking" =>
        LET task == [name |-> "checkUnreadEmails", data |-> {},
                     opts |-> {<<"delay", 60000>>}]
        IN /\ pc = "add" => calls = <<>> /\ emailQueue = queue0
           /\ pc = "done" =>
                /\ Len(calls) = 1
                /\ calls[1].svc = "queue" /\ calls[1].op = "add"
                /\ calls[1].arg = task
                /\ emailQueue = IF calls[1].res = "ok" THEN Append(queue0, task)
                                ELSE queue0

C8_Witness ==
    /\ op = "scheduleEmailChecking" /\ pc = "done"
    /\ gmailClient = NoClient
    /\ calls[1].res = "ok"
    /\ Len(emailQueue) = Len(queue0) + 1

\* C9: what createReplyMessage returns reads back, through base64url and UTF-8,
\* as the lines From, To, Subject: Re:, In-Reply-To, References, an empty line
\* and the text, joined by newlines; it holds no '+', no '/' and does not end
\* with '='.
C9_ReplyRoundTrips ==
    (op = "createReplyMessage" /\ pc = "done") =>
        /\ ReadBack(ret.data) =
               ReplyBlock(loc.from, loc.to, loc.subject, loc.text, loc.messageId)
        /\ \A i \in 1..Len(ret.data) : ret.data[i] \notin {PLUS, SLASH}
        /\ ret.data # <<>> /\ ret.data[Len(ret.data)] # EQUALS

\* A reply whose plain base64 form has '+', '/' and padding, and whose text has a
\* character of two bytes.
C9_Witness ==
    /\ op = "createReplyMessage" /\ pc = "done"
    /\ LET plain == Base64(Utf8Encode(ReplyBlock(loc.from, loc.to, loc.subject,
                                                 loc.text, loc.messageId)))
       IN /\ \E i \in 1..Len(plain) : plain[i] = PLUS
          /\ \E i \in 1..Len(plain) : plain[i] = SLASH
          /\ plain[Len(plain)] = EQUALS
          /\ Len(ret.data) < Len(plain)
    /\ \E i \in 1..Len(loc.text) : loc.text[i] > 127

HasHeader(headers, name) == \E i \in 1..Len(headers) : headers[i].name = name
FirstHeader(headers, name) ==
    headers[CHOOSE i \in 1..Len(headers) :
               /\ headers[i].name = name
               /\ \A j \in 1..(i - 1) : headers[j].name # name]
ValueOr(headers, name, default) ==
    IF HasHeader(headers, name) THEN FirstHeader(headers, name).value ELSE default
Fetched == op = "getEmailData" /\ pc = "done" /\ ret.kind = "record"

\* C10 as claimed: the record of a fetched message has, for subject, from and to,
\* the value of the first header named exactly so, 'No Subject' and '' standing in
\* only when there is no such header, and the snippet, or '' without one, as body.
C10_HeaderValuesAsClaimed ==
    Fetched =>
        LET m == mailbox[loc.k]
        IN /\ ret.data.subject = ValueOr(m.headers, S_Subject, S_NoSubject)
           /\ ret.data.from = ValueOr(m.headers, S_From, <<>>)
           /\ ret.data.to = ValueOr(m.headers, S_To, <<>>)
           /\ ret.data.emailContent = IF m.snippet.def THEN m.snippet.s ELSE <<>>

\* C10 as amended: the same, with 'No Subject' also standing in when the first
\* Subject header has an empty value.
C10_HeaderValuesOrDefaults ==
    Fetched =>
        LET m == mailbox[loc.k]
        IN /\ ret.data.subject =
                IF ValueOr(m.headers, S_Subject, <<>>) = <<>> THEN S_NoSubject
                ELSE ValueOr(m.headers, S_Subject, <<>>)
           /\ ret.data.from = ValueOr(m.headers, S_From, <<>>)
           /\ ret.data.to = ValueOr(m.headers, S_To, <<>>)
           /\ ret.data.emailContent = IF m.snippet.def THEN m.snippet.s ELSE <<>>

\* A message with two Subject headers, the first one empty, and a header whose
\* name differs from 'Subject' only in case.
C10_Witness ==
    /\ Fetched
    /\ Len(mailbox[loc.k].headers) = 2
    /\ mailbox[loc.k].headers[1] = Header(S_Subject, <<>>)
    /\ mailbox[loc.k].headers[2] = Header(S_Subject, S_a)
    /\ ret.data.subject = S_NoSubject

\* The place of a call in the order analyze, categorize, add-label, generate,
\* send, mark-read (0 for any other call).
CallRank(c) ==
    IF c.svc = "openai" /\ c.op = "analyzeEmailContext" THEN 1
    ELSE IF c.svc = "openai" /\ c.op = "categorizeEmailContent" THEN 2
    ELSE IF IsAddLabel(c) THEN 3
    ELSE IF c.svc = "openai" /\ c.op = "generateEmailReply" THEN 4
    ELSE IF IsSend(c) THEN 5
    ELSE IF IsMarkRead(c) THEN 6
    ELSE 0
StepRank(s) ==
    IF s.step = "analyze" THEN 1
    ELSE IF s.step = "categorize" THEN 2
    ELSE IF s.step = "label" THEN 3
    ELSE IF s.step = "generate" THEN 4
    ELSE IF s.step = "send" THEN 5
    ELSE IF s.step = "mark" THEN 6
    ELSE 0

\* The order alone: calls and steps of a run come in strictly rising rank, so
\* each is made at most once, the send after the label step and the mark-read
\* after the send step.
CallsInOrder ==
    ProcessRan =>
        /\ \A i \in 1..Len(calls) : CallRank(calls[i]) > 0
        /\ \A i, j \in 1..Len(calls) : i < j => CallRank(calls[i]) < CallRank(calls[j])
        /\ \A i \in 1..Len(steps) : StepRank(steps[i]) > 0
        /\ \A i, j \in 1..Len(steps) : i < j => StepRank(steps[i]) < StepRank(steps[j])
        /\ pc = "send" /\ loc.labelId # LabelNull => "label" \in {steps[i].step : i \in 1..Len(steps)}
        /\ pc = "mark" => "send" \in {steps[i].step : i \in 1..Len(steps)}

\* C11: within a processIncomingEmail run the calls are issued in the order
\* analyze, categorize, add-label, generate, send, mark-read, each at most once,
\* the send after the label step and the mark-read after the send step; and an
\* add-label call is issued only when the category is one of the mapped keys.
C11_CallsInOrderLabelOnlyIfMapped ==
    /\ CallsInOrder
    /\ ProcessRan =>
         (CallsWhere(IsAddLabel) # {} => PropertyKey(loc.category) \in MappedCategories)

\* The lines of a text, split at the line feeds.
RECURSIVE Lines(_)
Lines(s) ==
    IF \A i \in 1..Len(s) : s[i] # NL THEN <<s>>
    ELSE LET n == CHOOSE i \in 1..Len(s) : s[i] = NL /\ \A j \in 1..(i - 1) : s[j] # NL
         IN <<SubSeq(s, 1, n - 1)>> \o Lines(SubSeq(s, n + 1, Len(s)))

SentLines(c) == Lines(ReadBack(c.arg.raw))

\* C12: every reply handed to the provider's send is addressed back: for the
\* record from=a, to=b its 'To' header is a and its 'From' header is b, its
\* subject is 'Re: ' and the original subject, and In-Reply-To and References
\* are both the message id.
C12_ReplyAddressedBack ==
    ProcessRan =>
        \A i \in CallsWhere(IsSend) :
            LET l == SentLines(calls[i]) IN
            /\ Len(l) >= 6
            /\ l[1] = S_FromColon \o loc.emailData.to
            /\ l[2] = S_ToColon \o loc.emailData.from
            /\ l[3] = S_SubjectRe \o loc.emailData.subject
            /\ l[4] = S_InReplyTo \o loc.messageId
            /\ l[5] = S_References \o loc.messageId
            /\ l[6] = <<>>

C12_Witness ==
    /\ ProcessRan
    /\ loc.emailData.from = S_a /\ loc.emailData.to = S_b
    /\ \E i \in CallsWhere(IsSend) : calls[i].res = "ok"

\* The positions in calls of the queue adds that failed.
FailedAdds == {i \in 1..Len(calls) : calls[i].svc = "queue" /\ calls[i].res = "fail"}

\* C13: when in checkUnreadEmails the add for the k-th of the N listed messages
\* fails, that add is the last call of the run (no retry, no add for a later
\* message), the adds before it were for the first k-1 messages and their
\* tasks are in the queue, nothing else is, and the run has resolved with no
\* value, as a run without failure does.
C13_AddFailureStopsTheLoop ==
    op = "checkUnreadEmails" =>
        \A j \in FailedAdds :
            LET k == j - 1 IN
            /\ k \in 1..Len(loc.res.ids)
            /\ Len(calls) = j
            /\ calls[j].arg = ExpectedProcessTasks[k]
            /\ \A i \in 1..(k - 1) :
                 calls[i + 1].res = "ok" /\ calls[i + 1].arg = ExpectedProcessTasks[i]
            /\ emailQueue = queue0 \o SubSeq(ExpectedProcessTasks, 1, k - 1)
            /\ pc = "done" /\ ret = ResolvedUndefined

C13_Witness ==
    /\ op = "checkUnreadEmails" /\ pc = "done"
    /\ Len(loc.res.ids) = NumMsgs
    /\ FailedAdds = {NumMsgs + 1}
    /\ Len(emailQueue) = Len(queue0) + NumMsgs - 1

\* A step in which checkUnreadEmails returns at once for want of a client.
NoSessionReturn ==
    /\ Idle /\ gmailClient' = gmailClient
    /\ op' = "checkUnreadEmails" /\ pc' = "done"
    /\ steps' = <<Step("client", "noclient")>> /\ calls' = <<>>

\* C14: the session handle is written by initializeGmailClient alone: a step
\* that changes it binds a token and touches nothing else, so no step of
\* scheduleEmailChecking, checkUnreadEmails, getEmailData or
\* processIncomingEmail unbinds or replaces it; once bound it stays bound, and
\* checkUnreadEmails returns for want of a session only while none was bound.
C14_OnlyInitializeWritesTheSession ==
    [][ /\ gmailClient' # gmailClient =>
             /\ gmailClient' \in Tokens
             /\ UNCHANGED <<emailQueue, mailbox, provider, job, op, pc, loc, calls,
                            steps, ret, queue0>>
        /\ gmailClient # NoClient => gmailClient' # NoClient
        /\ NoSessionReturn => gmailClient = NoClient ]_vars

C14_Witness ==
    /\ gmailClient \in Tokens
    /\ op = "checkUnreadEmails" /\ pc = "done"
    /\ steps = <<Step("client", "ok")>>
    /\ Len(calls) = 1 /\ calls[1].res = "fail"

\* C15: processIncomingEmail called with a null record is over at once: it has
\* made no call at all (none to the classifier, none to the mail provider), it
\* has resolved with no value and has not rejected, and the queue is as it was.
C15_NullRecordNoCalls ==
    (op = "processIncomingEmail" /\ loc.emailData = NullData) =>
        /\ pc = "done"
        /\ calls = <<>>
        /\ steps = <<Step("destructure", "threw")>>
        /\ ret = ResolvedUndefined
        /\ emailQueue = queue0

C15_Witness ==
    /\ op = "processIncomingEmail" /\ loc.emailData = NullData
    /\ pc = "done" /\ gmailClient \in Tokens

\* C16: whatever the order in which the worker runs the check tasks and the
\* process tasks, no message gets more than one reply: a message that is still
\* unread at a later poll is not replied to a second time.
C16_AtMostOneReplyPerMessage ==
    \A k \in MsgIds : provider.sent[k] <= 1

====
